---- MODULE Spec2Model ----
(***************************************************************************)
(* Session-authenticated Synology API client (src/src/synology.rs) and the *)
(* bot handlers that drive it under one tokio Mutex (src/src/main.rs).     *)
(*                                                                         *)
(* Spec        the program: concurrent update handlers, the lock, the      *)
(*             login / api_request / logout bracket of each operation.     *)
(* SpecClient  the SynologyClient on its own: one caller invoking its      *)
(*             methods in any order (each method's contract).              *)
(***************************************************************************)
EXTENDS Integers, Sequences, FiniteSets, TLC

\* ---------------------------------------------------------------- bounds
NumHandlers == 2      \* concurrent update handlers (tasks of the dispatcher)
MaxCalls == 2         \* method calls made in one run of SpecClient
NumSids == 2          \* distinct session ids the NAS hands out

Handlers == 1 .. NumHandlers

\* ------------------------------------------------------------ wire values
\* sid: Option<String>; NoSid is None.
NoSid == "None"
SidNames == <<"sid1", "sid2", "sid3", "sid4">>
SidSet == {SidNames[i] : i \in 1 .. NumSids}

\* Error codes a response may carry (a sample of the table and beyond).
ErrorCodes == {119, 400}

\* A JSON field holding an optional boolean.
Tri == {"absent", "true", "false"}

\* FileInfo values are identified by a name; the listings the NAS is taken
\* to return.
FileLists == {<<>>, <<"a">>, <<"a", "b">>, <<"b", "a">>}

\* The "data" member of a response body.  kind "none": absent or null.
\* "auth": {sid}.  "status": an object with any of the three status fields.
\* "files": {files, total, offset}.  "other": an object with none of these.
MkData(k, s, a, b, c, f) ==
    [kind |-> k, sid |-> s, service_status |-> a, enable_ssh |-> b,
     status |-> c, files |-> f]
DataNone == MkData("none", NoSid, "absent", "absent", "absent", <<>>)
DataAuth(s) == MkData("auth", s, "absent", "absent", "absent", <<>>)
DataStatus(a, b, c) == MkData("status", NoSid, a, b, c, <<>>)
DataFiles(f) == MkData("files", NoSid, "absent", "absent", "absent", f)
DataOther == MkData("other", NoSid, "absent", "absent", "absent", <<>>)
StatusPayloads == {DataStatus(a, b, c) : a \in Tri, b \in Tri, c \in Tri}
StatusSamples ==
    {DataStatus("absent", "absent", "absent"), DataStatus("absent", "absent", "true"),
     DataStatus("false", "true", "absent"), DataStatus("true", "false", "false")}
DataSet ==
    {DataNone, DataOther}
        \cup {DataAuth(s) : s \in SidSet}
        \cup StatusSamples
        \cup {DataFiles(f) : f \in FileLists}

\* The "error" member of a response body: absent, or {code}.
NoError == [present |-> FALSE, code |-> 0]
ApiError(c) == [present |-> TRUE, code |-> c]
ErrorSet == {NoError} \cup {ApiError(c) : c \in ErrorCodes}

\* A response body: unreadable (the body stream fails), malformed (not JSON of
\* the envelope shape) or an envelope {success, data, error}.
MkBody(k, s, d, e) == [kind |-> k, success |-> s, data |-> d, error |-> e]
BodyUnreadable == MkBody("unreadable", FALSE, DataNone, NoError)
BodyMalformed == MkBody("malformed", FALSE, DataNone, NoError)
Envelope(s, d, e) == MkBody("envelope", s, d, e)
\* The bodies the NAS is taken to send: every payload with success true, and
\* failures with and without an error object (and with a stray payload).
BodySet ==
    {BodyUnreadable, BodyMalformed, Envelope(TRUE, DataNone, ApiError(119))}
        \cup {Envelope(TRUE, d, NoError) : d \in DataSet}
        \cup {Envelope(FALSE, d, e) :
                d \in {DataNone, DataOther, DataAuth(SidNames[1])}, e \in ErrorSet}

\* What the HTTP layer gives back for one request: the send fails ("neterr"),
\* the status is not 2xx ("status"), or the status is 2xx with a body ("ok").
HttpFail(h) == [http |-> h, body |-> BodyUnreadable]
HttpOk(b) == [http |-> "ok", body |-> b]
Responses == {HttpFail("neterr"), HttpFail("status")} \cup {HttpOk(b) : b \in BodySet}
NoResponse == [http |-> "none", body |-> BodyUnreadable]

\* --------------------------------------------------------- result values
\* Result<R, SynologyClientError>: kind "Ok" or the error variant.
MkVal(t, b, f) == [t |-> t, b |-> b, files |-> f]
NoVal == MkVal("none", FALSE, <<>>)
UnitVal == MkVal("unit", FALSE, <<>>)
BoolVal(b) == MkVal("bool", b, <<>>)
FilesVal(f) == MkVal("files", FALSE, f)

MkResult(k, c, m, v) == [kind |-> k, code |-> c, msg |-> m, val |-> v]
NoResult == MkResult("none", 0, <<>>, NoVal)
Ok(v) == MkResult("Ok", 0, <<>>, v)
ErrReqwest(why) == MkResult("Reqwest", 0, <<why>>, NoVal)
ErrSynology(c) == MkResult("Synology", c, <<>>, NoVal)
ErrGeneric(m) == MkResult("Generic", 0, m, NoVal)
ErrLoginFailed == MkResult("LoginFailed", 0, <<>>, NoVal)
IsOk(r) == r.kind = "Ok"
IsErr(r) == r.kind \notin {"Ok", "none"}

\* ------------------------------------------------------------ decoding
\* serde: does `data` deserialize as Option<T>?  null/absent is None for every
\* T; AuthData needs sid, FileListData needs files/total/offset, every field
\* of ServiceStatusData has a default (any object fits), () accepts only null.
DataFits(T, d) ==
    CASE d.kind = "none" -> TRUE
      [] T = "AuthData" -> d.kind = "auth"
      [] T = "FileListData" -> d.kind = "files"
      [] T = "ServiceStatusData" -> TRUE
      [] OTHER -> FALSE

\* Does the body deserialize as SynologyResponse<T>?
ParsesAs(T, body) == body.kind = "envelope" /\ DataFits(T, body.data)

\* From<ServiceStatusData> for bool: service_status || enable_ssh || status.
ServiceStatusToBool_IgnoresStatus(d) ==
    \/ d.service_status = "true"
    \/ d.enable_ssh = "true"

ServiceStatusToBool(d) ==
    \/ d.service_status = "true"
    \/ d.enable_ssh = "true"
    \/ d.status = "true"

\* From<FileListData> for Vec<FileInfo>.
FileListToVec_Reversed(d) == [i \in 1 .. Len(d.files) |-> d.files[Len(d.files) + 1 - i]]

FileListToVec(d) == d.files

\* data.into(): the conversion T -> R of api_request.
Into(T, d) ==
    CASE T = "FileListData" -> FilesVal(FileListToVec(d))
      [] T = "ServiceStatusData" -> BoolVal(ServiceStatusToBool(d))
      [] OTHER -> UnitVal

\* ------------------------------------------------------- SynologyClient
\* get_url: every endpoint constant is "/entry.cgi".
GetUrl(base) == <<base, "/webapi", "/entry.cgi">>

\* The query parameters of the three kinds of request, in the order built.
LoginParams(user, pass) ==
    <<<<"api", "SYNO.API.Auth">>, <<"version", "3">>, <<"method", "login">>,
      <<"account", user>>, <<"passwd", pass>>>>
LogoutParams(s) ==
    <<<<"api", "SYNO.API.Auth">>, <<"version", "3">>, <<"method", "logout">>,
      <<"_sid", s>>>>
ApiParams_ExtraFirst(api, version, method, s, extra) ==
    extra \o <<<<"api", api>>, <<"version", version>>, <<"method", method>>,
               <<"_sid", s>>>>

ApiParams(api, version, method, s, extra) ==
    <<<<"api", api>>, <<"version", version>>, <<"method", method>>,
      <<"_sid", s>>>> \o extra

\* to_curl_command(url, params, mask_params): "curl -X GET '<url>?k=v&k=v'",
\* the value of a masked key replaced by eight stars, every quote of the URL
\* escaped.  replace("'", "\\'") works character by character, so it is applied
\* here to each piece of the URL; the pieces with a quote are the samples.
ReplaceQuote(v) ==
    CASE v = "o'neil" -> "o\\'neil"
      [] v = "pa'ss" -> "pa\\'ss"
      [] OTHER -> v

ParamValue_Unmasked(key, value, mask_params) == value

ParamValue(key, value, mask_params) ==
    IF key \in mask_params THEN "********" ELSE value

RECURSIVE QueryString(_, _, _)
QueryString(params, mask_params, i) ==
    IF i > Len(params) THEN ""
    ELSE (IF i = 1 THEN "?" ELSE "&")
            \o ReplaceQuote(params[i][1]) \o "="
            \o ReplaceQuote(ParamValue(params[i][1], params[i][2], mask_params))
            \o QueryString(params, mask_params, i + 1)

ToCurlCommand(url, params, mask_params) ==
    "curl -X GET" \o " '"
        \o ReplaceQuote(url[1]) \o ReplaceQuote(url[2]) \o ReplaceQuote(url[3])
        \o QueryString(params, mask_params, 1) \o "'"

\* A method's outcome: the session id it leaves, what it returns, and the
\* requests it sent (each the parameter list of one GET).
Outcome(s, r, q) == [sid |-> s, ret |-> r, reqs |-> q]

\* SynologyError::get_error_description: the match on self.code (an i32).
\* Its `_` arm first.
ReservedOrUnknown_From121(code) ==
    IF code > 120 /\ code <= 149
    THEN "Preserve for other purpose."
    ELSE "Unknown error code."

ReservedOrUnknown(code) ==
    IF code >= 120 /\ code <= 149
    THEN "Preserve for other purpose."
    ELSE "Unknown error code."

GetErrorDescription(code) ==
    CASE code = 100 -> "Unknown error."
      [] code = 101 -> "No parameter of API, method or version."
      [] code = 102 -> "The requested API does not exist."
      [] code = 103 -> "The requested method does not exist."
      [] code = 104 -> "The requested version does not support the functionality."
      [] code = 105 -> "The logged in session does not have permission."
      [] code = 106 -> "Session timeout."
      [] code = 107 -> "Session interrupted by duplicated login."
      [] code = 108 -> "Failed to upload the file."
      [] code = 109 -> "The network connection is unstable or the system is busy."
      [] code = 110 -> "The network connection is unstable or the system is busy."
      [] code = 111 -> "The network connection is unstable or the system is busy."
      [] code = 112 -> "Preserve for other purpose."
      [] code = 113 -> "Preserve for other purpose."
      [] code = 114 -> "Lost parameters for this API."
      [] code = 115 -> "Not allowed to upload a file."
      [] code = 116 -> "Not allowed to perform for a demo site."
      [] code = 117 -> "The network connection is unstable or the system is busy."
      [] code = 118 -> "The network connection is unstable or the system is busy."
      [] code = 119 -> "Invalid session."
      [] code = 150 -> "Request source IP does not match the login IP."
      [] OTHER -> ReservedOrUnknown(code)

\* handle_error_response(error, operation).
HandleErrorResponse_DropsError(error, operation) ==
    ErrGeneric(operation \o <<"with unknown error">>)

HandleErrorResponse_AbsentIsOk(error, operation) ==
    IF error.present
    THEN ErrSynology(error.code)
    ELSE Ok(UnitVal)

HandleErrorResponse(error, operation) ==
    IF error.present
    THEN ErrSynology(error.code)
    ELSE ErrGeneric(operation \o <<"with unknown error">>)

\* login(): one GET; `?` on send/error_for_status and on response.json().
Login_KeepsHeldSid(s, user, pass, resp) ==
    LET q == <<LoginParams(user, pass)>> IN
    IF resp.http # "ok" THEN Outcome(s, ErrReqwest(resp.http), q)
    ELSE IF ~ParsesAs("AuthData", resp.body) THEN Outcome(s, ErrReqwest("decode"), q)
    ELSE IF resp.body.success /\ resp.body.data.kind # "none"
         THEN Outcome(IF s = NoSid THEN resp.body.data.sid ELSE s, Ok(UnitVal), q)
    ELSE Outcome(s, HandleErrorResponse(resp.body.error, <<"Login failed">>), q)

Login_RetriesOnce(s, user, pass, resp) ==
    LET q == <<LoginParams(user, pass)>> IN
    IF resp.http # "ok" THEN Outcome(s, ErrReqwest(resp.http), q \o q)
    ELSE IF ~ParsesAs("AuthData", resp.body) THEN Outcome(s, ErrReqwest("decode"), q)
    ELSE IF resp.body.success /\ resp.body.data.kind # "none"
         THEN Outcome(resp.body.data.sid, Ok(UnitVal), q)
    ELSE Outcome(s, HandleErrorResponse(resp.body.error, <<"Login failed">>), q)

Login_ClearsOnError(s, user, pass, resp) ==
    LET q == <<LoginParams(user, pass)>> IN
    IF resp.http # "ok" THEN Outcome(NoSid, ErrReqwest(resp.http), q)
    ELSE IF ~ParsesAs("AuthData", resp.body) THEN Outcome(NoSid, ErrReqwest("decode"), q)
    ELSE IF resp.body.success /\ resp.body.data.kind # "none"
         THEN Outcome(resp.body.data.sid, Ok(UnitVal), q)
    ELSE Outcome(NoSid, HandleErrorResponse(resp.body.error, <<"Login failed">>), q)

Login(s, user, pass, resp) ==
    LET q == <<LoginParams(user, pass)>> IN
    IF resp.http # "ok" THEN Outcome(s, ErrReqwest(resp.http), q)
    ELSE IF ~ParsesAs("AuthData", resp.body) THEN Outcome(s, ErrReqwest("decode"), q)
    ELSE IF resp.body.success /\ resp.body.data.kind # "none"
         THEN Outcome(resp.body.data.sid, Ok(UnitVal), q)
    ELSE Outcome(s, HandleErrorResponse(resp.body.error, <<"Login failed">>), q)

\* logout(): nothing to do without a session; otherwise one GET, and the
\* session is cleared once send/error_for_status succeed (the body is not read).
Logout_ReadsBody(s, resp) ==
    IF s = NoSid THEN Outcome(NoSid, Ok(UnitVal), <<>>)
    ELSE IF resp.http # "ok" THEN Outcome(s, ErrReqwest(resp.http), <<LogoutParams(s)>>)
    ELSE IF ~ParsesAs("Unit", resp.body)
         THEN Outcome(s, ErrReqwest("decode"), <<LogoutParams(s)>>)
    ELSE IF ~resp.body.success
         THEN Outcome(s, HandleErrorResponse(resp.body.error, <<"Logout failed">>),
                      <<LogoutParams(s)>>)
    ELSE Outcome(NoSid, Ok(UnitVal), <<LogoutParams(s)>>)

Logout_SendsAlways(s, resp) ==
    IF resp.http # "ok" THEN Outcome(s, ErrReqwest(resp.http), <<LogoutParams(s)>>)
    ELSE Outcome(NoSid, Ok(UnitVal), <<LogoutParams(s)>>)

Logout_ClearsFirst(s, resp) ==
    IF s = NoSid THEN Outcome(NoSid, Ok(UnitVal), <<>>)
    ELSE IF resp.http # "ok" THEN Outcome(NoSid, ErrReqwest(resp.http), <<LogoutParams(s)>>)
    ELSE Outcome(NoSid, Ok(UnitVal), <<LogoutParams(s)>>)

Logout(s, resp) ==
    IF s = NoSid THEN Outcome(NoSid, Ok(UnitVal), <<>>)
    ELSE IF resp.http # "ok" THEN Outcome(s, ErrReqwest(resp.http), <<LogoutParams(s)>>)
    ELSE Outcome(NoSid, Ok(UnitVal), <<LogoutParams(s)>>)

\* ensure_login(): login only when no session is held; Ok(sid.is_some()).
EnsureLogin_AlwaysLogin(s, user, pass, loginResp) ==
    LET l == Login(s, user, pass, loginResp) IN
    IF IsErr(l.ret) THEN l
    ELSE Outcome(l.sid, Ok(BoolVal(l.sid # NoSid)), l.reqs)

EnsureLogin(s, user, pass, loginResp) ==
    IF s = NoSid
    THEN LET l == Login(s, user, pass, loginResp) IN
         IF IsErr(l.ret) THEN l
         ELSE Outcome(l.sid, Ok(BoolVal(l.sid # NoSid)), l.reqs)
    ELSE Outcome(s, Ok(BoolVal(TRUE)), <<>>)

\* api_request::<T, R>(endpoint, api, version, method, additional_params,
\* operation_name): ensure_login, one GET, decode, convert or map the error.
\* `a` is the argument record [T, api, version, method, extra, operation].
ApiRequest_ResendsOnFailure(s, user, pass, a, loginResp, resp) ==
    LET e == EnsureLogin(s, user, pass, loginResp) IN
    IF IsErr(e.ret) THEN e
    ELSE IF ~e.ret.val.b THEN Outcome(e.sid, ErrLoginFailed, e.reqs)
    ELSE
      LET r == <<ApiParams(a.api, a.version, a.method, e.sid, a.extra)>>
          q == e.reqs \o r IN
      IF resp.http # "ok" THEN Outcome(e.sid, ErrReqwest(resp.http), q \o r)
      ELSE IF resp.body.kind = "unreadable" THEN Outcome(e.sid, ErrReqwest("body"), q)
      ELSE IF ~ParsesAs(a.T, resp.body)
           THEN Outcome(e.sid, ErrGeneric(<<"JSON parsing error">>), q)
      ELSE IF resp.body.success /\ resp.body.data.kind # "none"
           THEN Outcome(e.sid, Ok(Into(a.T, resp.body.data)), q)
      ELSE Outcome(e.sid, HandleErrorResponse(resp.body.error, a.operation \o <<"failed">>), q)

ApiRequest(s, user, pass, a, loginResp, resp) ==
    LET e == EnsureLogin(s, user, pass, loginResp) IN
    IF IsErr(e.ret) THEN e
    ELSE IF ~e.ret.val.b THEN Outcome(e.sid, ErrLoginFailed, e.reqs)
    ELSE
      LET q == e.reqs \o <<ApiParams(a.api, a.version, a.method, e.sid, a.extra)>> IN
      IF resp.http # "ok" THEN Outcome(e.sid, ErrReqwest(resp.http), q)
      ELSE IF resp.body.kind = "unreadable" THEN Outcome(e.sid, ErrReqwest("body"), q)
      ELSE IF ~ParsesAs(a.T, resp.body)
           THEN Outcome(e.sid, ErrGeneric(<<"JSON parsing error">>), q)
      ELSE IF resp.body.success /\ resp.body.data.kind # "none"
           THEN Outcome(e.sid, Ok(Into(a.T, resp.body.data)), q)
      ELSE Outcome(e.sid, HandleErrorResponse(resp.body.error, a.operation \o <<"failed">>), q)

\* The arguments each domain operation passes to api_request.
MkArgs(T, api, version, method, extra, operation) ==
    [T |-> T, api |-> api, version |-> version, method |-> method,
     extra |-> extra, operation |-> operation]
ListFilesArgs(path) ==
    MkArgs("FileListData", "SYNO.FileStation.List", "2", "list",
           <<<<"folder_path", path>>>>, <<"list files in", path>>)
GetSshStatusArgs ==
    MkArgs("ServiceStatusData", "SYNO.Core.Terminal", "1", "get",
           <<>>, <<"get SSH service status">>)
ToggleSshArgs(enable) ==
    MkArgs("Unit", "SYNO.Core.Terminal", "1", "set",
           <<<<"enable_ssh", IF enable THEN "true" ELSE "false">>>>,
           <<IF enable THEN "enable" ELSE "disable", "SSH service">>)

\* The operation a caller is in: the method and its arguments.
MkOp(f, e, p) == [fn |-> f, enable |-> e, path |-> p]
NoOp == MkOp("none", FALSE, "")
Paths == {"/", "/empty"}
DomainOps ==
    {MkOp("get_ssh_status", FALSE, "")}
        \cup {MkOp("toggle_ssh", e, "") : e \in BOOLEAN}
        \cup {MkOp("list_files", FALSE, p) : p \in Paths}
ArgsOf(o) ==
    CASE o.fn = "list_files" -> ListFilesArgs(o.path)
      [] o.fn = "toggle_ssh" -> ToggleSshArgs(o.enable)
      [] OTHER -> GetSshStatusArgs

\* What list_files / get_ssh_status / toggle_ssh return once logout() has
\* returned: the api_request result (a logout error is only logged).
DomainReturn_LogoutErrorWins(o, apiResult, logoutResult) ==
    IF IsErr(logoutResult) THEN logoutResult ELSE apiResult

DomainReturn(o, apiResult, logoutResult) == apiResult

\* ----------------------------------------------------------------- main.rs
NumChats == 2
ChatIds == 1 .. NumChats

\* STB_ALLOWED_CHAT_ID as found in the environment, and its parse::<i64>().
AllowedEnvs == {"unset", "notanumber", "1"}
ParsesAsI64(v) == v = "1"
I64Of(v) == 1

\* is_authorized_chat(chat_id).
IsAuthorizedChat(env, chat) ==
    /\ env # "unset"
    /\ ParsesAsI64(env)
    /\ chat = I64Of(env)

\* An update: a parsed command, a text message that is no command, or a
\* callback query (whose message may be gone).
MkUpdate(t, c, k, a, m) == [type |-> t, chat |-> c, key |-> k, arg |-> a, hasMessage |-> m]
SshArgs == {"", "on", "ON", "off", "disable", "bogus"}
Updates ==
    {MkUpdate("command", c, "ping", "", TRUE) : c \in ChatIds}
        \cup {MkUpdate("command", c, "ssh", a, TRUE) : c \in ChatIds, a \in SshArgs}
        \cup {MkUpdate("message", c, k, "", TRUE) : c \in ChatIds, k \in {"/setnas", "other"}}
        \cup {MkUpdate("message", c, "/ssh", a, TRUE) : c \in ChatIds, a \in SshArgs}
        \cup {MkUpdate("callback", c, k, "", m) :
                c \in ChatIds, m \in BOOLEAN,
                k \in {"ssh_menu", "ssh_on", "ssh_off", "settings", "back", "nodata"}}

\* to_lowercase() on the argument samples.
ToLowercase(a) == IF a = "ON" THEN "on" ELSE a

\* The chat-id check at the head of each handler: a callback query without a
\* message is not checked.
PassesChatCheck_CallbacksUnchecked(env, u) ==
    IF u.type = "callback" THEN TRUE
    ELSE IsAuthorizedChat(env, u.chat)

PassesChatCheck(env, u) ==
    IF u.type = "callback" /\ ~u.hasMessage THEN TRUE
    ELSE IsAuthorizedChat(env, u.chat)

\* Does the handler take the client lock for this update?
NeedsClient(u) ==
    CASE u.type = "command" -> u.key = "ssh"
      [] u.type = "message" -> u.key = "/ssh"
      [] OTHER -> u.hasMessage /\ u.key \in {"ssh_menu", "ssh_on", "ssh_off"}

\* What the handler does with the client once ensure_logged_in said true.
Route(u) ==
    IF u.type = "callback"
    THEN CASE u.key = "ssh_menu" -> "get"
           [] u.key = "ssh_on" -> "on"
           [] OTHER -> "off"
    ELSE CASE u.arg = "" -> "get"
           [] ToLowercase(u.arg) \in {"on", "enable"} -> "on"
           [] ToLowercase(u.arg) \in {"off", "disable"} -> "off"
           [] OTHER -> "usage"

OpOfRoute(r) ==
    CASE r = "get" -> MkOp("get_ssh_status", FALSE, "")
      [] r = "on" -> MkOp("toggle_ssh", TRUE, "")
      [] OTHER -> MkOp("toggle_ssh", FALSE, "")

\* What a handler carries from its update to the client: the chat it answers
\* and the route taken; the three handlers run the same client code.
MkJob(c, r) == [chat |-> c, route |-> r]
NoJob == MkJob(0, "none")

\* The work an update leaves for the client: none when the chat-id check
\* rejects it or when its reply needs no client.
JobOf(env, u) ==
    IF PassesChatCheck(env, u) /\ NeedsClient(u)
    THEN MkJob(u.chat, Route(u))
    ELSE NoJob

\* ------------------------------------------------------------------ state
VARIABLES
    username,       \* SynologyConfig.username / SynologyClient.username
    password,       \* SynologyConfig.password / SynologyClient.password
    allowedEnv,     \* STB_ALLOWED_CHAT_ID
    clientCreated,  \* SynologyConfig.client is Some
    sid,            \* SynologyClient.sid
    lock,           \* holder of the Mutex<SynologyConfig>, 0 when free
    pc,             \* where each handler (caller) is
    job,            \* the update a handler is serving
    ensured,        \* what ensure_logged_in returned to the handler
    op,             \* the client method a caller is in
    apiRes,         \* the local `result` / `api_result` of a domain operation
    ret,            \* what the client method returned
    calls,          \* the client methods called within the operation, in order
    wire,           \* the requests sent to the NAS by the operations in progress
    sidAtCall,      \* SpecClient: the session id held when the call began
    granted,        \* the session id the NAS gave to the bracket's login
    lastResp,       \* SpecClient: the response the NAS gave to the last request
    started,        \* SpecClient: method calls begun so far
    prev,           \* SpecStub: the call before this one, as the caller saw it
    fnArg,          \* SpecFn: the argument a function is applied to
    fnOut,          \* SpecFn: what the function returned
    answers         \* SpecPair: what the NAS answers to the requests of a run, in order

vars ==
    <<username, password, allowedEnv, clientCreated, sid, lock, pc, job, ensured,
      op, apiRes, ret, calls, wire, sidAtCall, granted, lastResp, started,
      prev, fnArg, fnOut, answers>>

configVars == <<username, password, allowedEnv>>
sideVars == <<prev, fnArg, fnOut, answers>>

Usernames == {"", "admin"}
Passwords == {"", "secret"}

\* A finished call: the method, what it returned and the requests it sent.
MkCall(o, r, q) == [op |-> o, ret |-> r, reqs |-> q]
NoCall == MkCall(NoOp, NoResult, <<>>)

\* The argument and the result of a function applied on its own.
MkArg(f, c) == [fn |-> f, code |-> c]
NoArg == MkArg("none", 0)
NoOut == "-"

\* The requests `q` as entries of the wire log, sent by caller h.
Sent(h, q) == [i \in 1 .. Len(q) |-> [by |-> h, params |-> q[i]]]

MethodOf(e) == e.params[3][2]
SidOf(e) == IF e.params[4][1] = "_sid" THEN e.params[4][2] ELSE NoSid
WireOf(h) == SelectSeq(wire, LAMBDA e : e.by = h)
MethodsOf(h) == [i \in 1 .. Len(WireOf(h)) |-> MethodOf(WireOf(h)[i])]

Locals0 ==
    /\ pc = [h \in Handlers |-> "idle"]
    /\ job = [h \in Handlers |-> NoJob]
    /\ ensured = [h \in Handlers |-> "-"]
    /\ op = [h \in Handlers |-> NoOp]
    /\ apiRes = [h \in Handlers |-> NoResult]
    /\ ret = [h \in Handlers |-> NoResult]
    /\ calls = [h \in Handlers |-> <<>>]
    /\ sidAtCall = [h \in Handlers |-> NoSid]
    /\ granted = [h \in Handlers |-> NoSid]
    /\ wire = <<>>
    /\ lastResp = NoResponse
    /\ started = 0

\* Nothing remembered of an earlier call, no function applied on its own.
Side0 ==
    /\ prev = NoCall
    /\ fnArg = NoArg
    /\ fnOut = NoOut
    /\ answers = <<>>

\* SynologyConfig::new(): no client yet, credentials from the environment.
Init ==
    /\ username \in Usernames
    /\ password \in Passwords
    /\ allowedEnv \in AllowedEnvs
    /\ clientCreated = FALSE
    /\ sid = NoSid
    /\ lock = 0
    /\ Locals0
    /\ Side0

\* The session id a response carries in its payload, if any.
SidIn(resp) ==
    IF resp.http = "ok" /\ resp.body.kind = "envelope" /\ resp.body.data.kind = "auth"
    THEN resp.body.data.sid
    ELSE NoSid

\* ------------------------------------------------- the bracket, step by step
\* self.login().await? at the head of a domain operation; the NAS answers resp.
LoginStep_GoesOnAfterError(h, resp) ==
    /\ pc[h] = "call_login"
    /\ LET o == Login(sid, username, password, resp) IN
         /\ sid' = o.sid
         /\ wire' = wire \o Sent(h, o.reqs)
         /\ ret' = ret
         /\ pc' = [pc EXCEPT ![h] = "call_api"]
    /\ calls' = [calls EXCEPT ![h] = @ \o <<"login">>]
    /\ granted' = [granted EXCEPT ![h] = SidIn(resp)]
    /\ UNCHANGED <<configVars, sideVars, clientCreated, lock, job, ensured, op, apiRes,
                   sidAtCall, started>>

LoginStep_EnsuresOnly(h, resp) ==
    /\ pc[h] = "call_login"
    /\ LET o == EnsureLogin(sid, username, password, resp) IN
         /\ sid' = o.sid
         /\ wire' = wire \o Sent(h, o.reqs)
         /\ IF IsErr(o.ret)
            THEN /\ ret' = [ret EXCEPT ![h] = o.ret]
                 /\ pc' = [pc EXCEPT ![h] = "returned"]
            ELSE /\ ret' = ret
                 /\ pc' = [pc EXCEPT ![h] = "call_api"]
    /\ calls' = [calls EXCEPT ![h] = @ \o <<"login">>]
    /\ granted' = [granted EXCEPT ![h] = SidIn(resp)]
    /\ UNCHANGED <<configVars, sideVars, clientCreated, lock, job, ensured, op, apiRes,
                   sidAtCall, started>>

LoginStep(h, resp) ==
    /\ pc[h] = "call_login"
    /\ LET o == Login(sid, username, password, resp) IN
         /\ sid' = o.sid
         /\ wire' = wire \o Sent(h, o.reqs)
         /\ IF IsErr(o.ret)
            THEN /\ ret' = [ret EXCEPT ![h] = o.ret]
                 /\ pc' = [pc EXCEPT ![h] = "returned"]
            ELSE /\ ret' = ret
                 /\ pc' = [pc EXCEPT ![h] = "call_api"]
    /\ calls' = [calls EXCEPT ![h] = @ \o <<"login">>]
    /\ granted' = [granted EXCEPT ![h] = SidIn(resp)]
    /\ UNCHANGED <<configVars, sideVars, clientCreated, lock, job, ensured, op, apiRes,
                   sidAtCall, started>>

\* let result = self.api_request(...).await; the NAS answers lr to the login
\* of ensure_login (if it sends one) and resp to the operation's request.
ApiStep_ReturnsOnError(h, lr, resp) ==
    /\ pc[h] = "call_api"
    /\ LET o == ApiRequest(sid, username, password, ArgsOf(op[h]), lr, resp) IN
         /\ sid' = o.sid
         /\ wire' = wire \o Sent(h, o.reqs)
         /\ apiRes' = [apiRes EXCEPT ![h] = o.ret]
         /\ IF IsErr(o.ret)
            THEN /\ ret' = [ret EXCEPT ![h] = o.ret]
                 /\ pc' = [pc EXCEPT ![h] = "returned"]
            ELSE /\ ret' = ret
                 /\ pc' = [pc EXCEPT ![h] = "call_logout"]
    /\ calls' = [calls EXCEPT ![h] = @ \o <<"api_request">>]
    /\ UNCHANGED <<configVars, sideVars, clientCreated, lock, job, ensured, op,
                   sidAtCall, granted, started>>

ApiStep(h, lr, resp) ==
    /\ pc[h] = "call_api"
    /\ LET o == ApiRequest(sid, username, password, ArgsOf(op[h]), lr, resp) IN
         /\ sid' = o.sid
         /\ wire' = wire \o Sent(h, o.reqs)
         /\ apiRes' = [apiRes EXCEPT ![h] = o.ret]
    /\ calls' = [calls EXCEPT ![h] = @ \o <<"api_request">>]
    /\ pc' = [pc EXCEPT ![h] = "call_logout"]
    /\ UNCHANGED <<configVars, sideVars, clientCreated, lock, job, ensured, op, ret,
                   sidAtCall, granted, started>>

\* if let Err(e) = self.logout().await { error!(...) }; then the return.
LogoutStep(h, resp) ==
    /\ pc[h] = "call_logout"
    /\ LET o == Logout(sid, resp) IN
         /\ sid' = o.sid
         /\ wire' = wire \o Sent(h, o.reqs)
         /\ ret' = [ret EXCEPT ![h] = DomainReturn(op[h], apiRes[h], o.ret)]
    /\ calls' = [calls EXCEPT ![h] = @ \o <<"logout">>]
    /\ pc' = [pc EXCEPT ![h] = "returned"]
    /\ UNCHANGED <<configVars, sideVars, clientCreated, lock, job, ensured, op, apiRes,
                   sidAtCall, granted, started>>

\* The responses that matter to a request that may not be sent.
LoginAnswers == IF sid = NoSid THEN Responses ELSE {NoResponse}
LogoutAnswers == IF sid = NoSid THEN {NoResponse} ELSE Responses

\* What a caller's locals are between operations.
ResetLocals(h) ==
    /\ job' = [job EXCEPT ![h] = NoJob]
    /\ ensured' = [ensured EXCEPT ![h] = "-"]
    /\ op' = [op EXCEPT ![h] = NoOp]
    /\ apiRes' = [apiRes EXCEPT ![h] = NoResult]
    /\ ret' = [ret EXCEPT ![h] = NoResult]
    /\ calls' = [calls EXCEPT ![h] = <<>>]
    /\ sidAtCall' = [sidAtCall EXCEPT ![h] = NoSid]
    /\ granted' = [granted EXCEPT ![h] = NoSid]
    /\ wire' = SelectSeq(wire, LAMBDA e : e.by # h)

\* ------------------------------------------------------ the bot's handlers
\* An update reaches answer_command / message_handler / callback_handler:
\* the chat-id check, then either a reply that needs no client or the wait
\* for the lock.
Dispatch(h) ==
    /\ pc[h] = "idle"
    /\ \E j \in {JobOf(allowedEnv, u) : u \in Updates} :
         IF j # NoJob
         THEN /\ job' = [job EXCEPT ![h] = j]
              /\ pc' = [pc EXCEPT ![h] = "lock"]
         ELSE UNCHANGED <<job, pc>>
    /\ UNCHANGED <<configVars, sideVars, clientCreated, sid, lock, ensured, op, apiRes, ret,
                   calls, wire, sidAtCall, granted, lastResp, started>>

\* let mut config = synology_config.lock().await;
AcquireLock_NoWait(h) ==
    /\ pc[h] = "lock"
    /\ lock' = h
    /\ pc' = [pc EXCEPT ![h] = "ensure"]
    /\ UNCHANGED <<configVars, sideVars, clientCreated, sid, job, ensured, op, apiRes, ret,
                   calls, wire, sidAtCall, granted, lastResp, started>>

AcquireLock(h) ==
    /\ pc[h] = "lock"
    /\ lock = 0
    /\ lock' = h
    /\ pc' = [pc EXCEPT ![h] = "ensure"]
    /\ UNCHANGED <<configVars, sideVars, clientCreated, sid, job, ensured, op, apiRes, ret,
                   calls, wire, sidAtCall, granted, lastResp, started>>

\* SynologyConfig::ensure_logged_in: Ok(false) when there is no client and a
\* credential is empty; otherwise the client exists (created now if need be)
\* and the answer is Ok(true).
EnsureLoggedInSays_PasswordUnchecked(created, user, pass) ==
    ~(~created /\ user = "")

EnsureLoggedInSays(created, user, pass) ==
    ~(~created /\ (user = "" \/ pass = ""))

\* config.ensure_logged_in().await and the match on its answer, up to the
\* call of the client method.
EnsureLoggedIn_NewClientEachTime(h) ==
    /\ pc[h] = "ensure"
    /\ IF EnsureLoggedInSays(clientCreated, username, password)
       THEN /\ clientCreated' = TRUE
            /\ sid' = NoSid
            /\ ensured' = [ensured EXCEPT ![h] = "true"]
            /\ IF job[h].route = "usage"
               THEN /\ pc' = [pc EXCEPT ![h] = "reply"]
                    /\ op' = op
               ELSE /\ pc' = [pc EXCEPT ![h] = "call_login"]
                    /\ op' = [op EXCEPT ![h] = OpOfRoute(job[h].route)]
       ELSE /\ ensured' = [ensured EXCEPT ![h] = "false"]
            /\ pc' = [pc EXCEPT ![h] = "reply"]
            /\ UNCHANGED <<clientCreated, sid, op>>
    /\ UNCHANGED <<configVars, sideVars, lock, job, apiRes, ret, calls, wire, sidAtCall, granted,
                   lastResp, started>>

EnsureLoggedIn(h) ==
    /\ pc[h] = "ensure"
    /\ IF EnsureLoggedInSays(clientCreated, username, password)
       THEN /\ clientCreated' = TRUE
            /\ sid' = IF clientCreated THEN sid ELSE NoSid
            /\ ensured' = [ensured EXCEPT ![h] = "true"]
            /\ IF job[h].route = "usage"
               THEN /\ pc' = [pc EXCEPT ![h] = "reply"]
                    /\ op' = op
               ELSE /\ pc' = [pc EXCEPT ![h] = "call_login"]
                    /\ op' = [op EXCEPT ![h] = OpOfRoute(job[h].route)]
       ELSE /\ ensured' = [ensured EXCEPT ![h] = "false"]
            /\ pc' = [pc EXCEPT ![h] = "reply"]
            /\ UNCHANGED <<clientCreated, sid, op>>
    /\ UNCHANGED <<configVars, sideVars, lock, job, apiRes, ret, calls, wire, sidAtCall, granted,
                   lastResp, started>>

BracketLogin(h) == \E resp \in Responses : LoginStep(h, resp) /\ UNCHANGED lastResp
BracketApi(h) ==
    \E lr \in LoginAnswers, resp \in Responses : ApiStep(h, lr, resp) /\ UNCHANGED lastResp
BracketLogout(h) == \E resp \in LogoutAnswers : LogoutStep(h, resp) /\ UNCHANGED lastResp

\* The reply to the chat (whether or not it gets through), then the guard
\* `config` goes out of scope: the lock is released.
Reply_DropsMidBracket(h) ==
    /\ pc[h] \in {"call_api", "call_logout", "returned", "reply"}
    /\ lock' = 0
    /\ pc' = [pc EXCEPT ![h] = "idle"]
    /\ ResetLocals(h)
    /\ UNCHANGED <<configVars, sideVars, clientCreated, sid, lastResp, started>>

Reply_KeepsLock(h) ==
    /\ pc[h] \in {"returned", "reply"}
    /\ lock' = lock
    /\ pc' = [pc EXCEPT ![h] = "idle"]
    /\ ResetLocals(h)
    /\ UNCHANGED <<configVars, sideVars, clientCreated, sid, lastResp, started>>

Reply(h) ==
    /\ pc[h] \in {"returned", "reply"}
    /\ lock' = 0
    /\ pc' = [pc EXCEPT ![h] = "idle"]
    /\ ResetLocals(h)
    /\ UNCHANGED <<configVars, sideVars, clientCreated, sid, lastResp, started>>

Next ==
    \E h \in Handlers :
        \/ Dispatch(h)
        \/ AcquireLock(h)
        \/ EnsureLoggedIn(h)
        \/ BracketLogin(h)
        \/ BracketApi(h)
        \/ BracketLogout(h)
        \/ Reply(h)

Spec == Init /\ [][Next]_vars

\* The steps of a handler that holds the lock, each one a NAS or
\* chat-service call and what the handler does when it returns.
UnderLockStep(h) ==
    \/ EnsureLoggedIn(h)
    \/ BracketLogin(h)
    \/ BracketApi(h)
    \/ BracketLogout(h)
    \/ Reply(h)

\* The handlers under the scheduling the runtime gives them. The calls a
\* handler awaits while it holds the lock are taken to return, so the holder
\* takes its next step once it can (weak fairness). The lock is
\* tokio::sync::Mutex, which hands itself to waiters in the order they asked:
\* a waiter for whom the lock comes free again and again does get it (strong
\* fairness). Updates are under no obligation to arrive.
HandlerFairness(h) ==
    /\ SF_vars(AcquireLock(h))
    /\ WF_vars(UnderLockStep(h))

SpecLive == Init /\ [][Next]_vars /\ \A h \in Handlers : HandlerFairness(h)

\* ------------------------------------------- the client on its own
\* SynologyClient::new(base_url, username, password, force_ipv4): sid None.
Credentials == {<<"admin", "secret">>, <<"", "">>}

InitClient ==
    /\ \E c \in Credentials : username = c[1] /\ password = c[2]
    /\ allowedEnv = "unset"
    /\ clientCreated = TRUE
    /\ sid = NoSid
    /\ lock = 0
    /\ Locals0
    /\ Side0

\* The one owner of the `&mut SynologyClient`: the first handler.
Caller == CHOOSE h \in Handlers : \A k \in Handlers : h <= k

\* The one caller starts a call of method o.fn on the idle client.
BeginCall(o) ==
    /\ pc[Caller] = "idle"
    /\ started < MaxCalls
    /\ started' = started + 1
    /\ op' = [op EXCEPT ![Caller] = o]
    /\ sidAtCall' = [sidAtCall EXCEPT ![Caller] = sid]

\* A call that is one method without a bracket: its outcome o, after the NAS
\* answered resp.
DirectCall(f, o, resp) ==
    /\ sid' = o.sid
    /\ wire' = wire \o Sent(Caller, o.reqs)
    /\ lastResp' = resp
    /\ ret' = [ret EXCEPT ![Caller] = o.ret]
    /\ calls' = [calls EXCEPT ![Caller] = <<f>>]
    /\ pc' = [pc EXCEPT ![Caller] = "returned"]
    /\ UNCHANGED <<configVars, sideVars, clientCreated, lock, job, ensured, apiRes, granted>>

\* The response to the last request o sent, if it sent the operation request.
AnswerSeen(o, lr, resp) ==
    IF o.reqs # <<>> /\ o.reqs[Len(o.reqs)][3][2] # "login" THEN resp ELSE lr

CallLogin ==
    /\ BeginCall(MkOp("login", FALSE, ""))
    /\ \E resp \in Responses :
         DirectCall("login", Login(sid, username, password, resp), resp)

CallLogout ==
    /\ BeginCall(MkOp("logout", FALSE, ""))
    /\ \E resp \in LogoutAnswers :
         DirectCall("logout", Logout(sid, resp), resp)

CallEnsureLogin ==
    /\ BeginCall(MkOp("ensure_login", FALSE, ""))
    /\ \E lr \in LoginAnswers :
         DirectCall("ensure_login", EnsureLogin(sid, username, password, lr), lr)

\* api_request with the arguments of one of the domain operations.
CallApiRequest ==
    \E d \in DomainOps :
      /\ BeginCall(MkOp("api_request", d.enable, d.path))
      /\ \E lr \in LoginAnswers, resp \in Responses :
           LET o == ApiRequest(sid, username, password, ArgsOf(d), lr, resp) IN
           DirectCall("api_request", o, AnswerSeen(o, lr, resp))

\* list_files / get_ssh_status / toggle_ssh: the bracket begins.
CallDomainOp ==
    \E d \in DomainOps :
      /\ BeginCall(d)
      /\ pc' = [pc EXCEPT ![Caller] = "call_login"]
      /\ UNCHANGED <<configVars, sideVars, clientCreated, sid, lock, job, ensured, apiRes, ret,
                     calls, wire, granted, lastResp>>

ClientLogin == \E resp \in Responses : LoginStep(Caller, resp) /\ lastResp' = resp
ClientApi ==
    \E lr \in LoginAnswers, resp \in Responses :
        /\ ApiStep(Caller, lr, resp)
        /\ lastResp' = AnswerSeen(ApiRequest(sid, username, password,
                                             ArgsOf(op[Caller]), lr, resp), lr, resp)
ClientLogout == \E resp \in LogoutAnswers : LogoutStep(Caller, resp) /\ lastResp' = resp

\* The caller takes the returned value; the client is free for the next call.
ClientReturn ==
    /\ pc[Caller] = "returned"
    /\ pc' = [pc EXCEPT ![Caller] = "idle"]
    /\ ResetLocals(Caller)
    /\ lastResp' = NoResponse
    /\ UNCHANGED <<configVars, sideVars, clientCreated, sid, lock, started>>

NextClient ==
    \/ CallLogin
    \/ CallLogout
    \/ CallEnsureLogin
    \/ CallApiRequest
    \/ CallDomainOp
    \/ ClientLogin
    \/ ClientApi
    \/ ClientLogout
    \/ ClientReturn

SpecClient == InitClient /\ [][NextClient]_vars

\* --------------------------------- the client against a NAS that says yes
\* The NAS reports success to every request: a session id to a login, an
\* envelope with success true (and whatever payload) to an operation request,
\* a 2xx to a logout.
StubLoginAnswers == {HttpOk(Envelope(TRUE, DataAuth(s), NoError)) : s \in SidSet}
StubApiAnswers == {HttpOk(Envelope(TRUE, d, NoError)) : d \in DataSet \cup StatusPayloads}
StubLogoutAnswers == {HttpOk(Envelope(TRUE, DataNone, NoError))}

\* The parameter lists of the requests caller h has sent in this call.
RequestsOf(h) == [i \in 1 .. Len(WireOf(h)) |-> WireOf(h)[i].params]

StubLogin == \E resp \in StubLoginAnswers : LoginStep(Caller, resp) /\ lastResp' = resp
StubApi == \E resp \in StubApiAnswers : ApiStep(Caller, NoResponse, resp) /\ lastResp' = resp
StubLogout == \E resp \in StubLogoutAnswers : LogoutStep(Caller, resp) /\ lastResp' = resp

\* The caller takes the returned value and keeps it for comparison with the
\* next call's.
StubReturn ==
    /\ pc[Caller] = "returned"
    /\ pc' = [pc EXCEPT ![Caller] = "idle"]
    /\ prev' = MkCall(op[Caller], ret[Caller], RequestsOf(Caller))
    /\ ResetLocals(Caller)
    /\ lastResp' = NoResponse
    /\ UNCHANGED <<configVars, clientCreated, sid, lock, started, fnArg, fnOut, answers>>

NextStub ==
    \/ CallDomainOp
    \/ StubLogin
    \/ StubApi
    \/ StubLogout
    \/ StubReturn

SpecStub == InitClient /\ [][NextStub]_vars

\* ------------------------- one domain operation, run twice on like answers
\* The same domain operation is run on two clients that differ in nothing but
\* the session id held at the start, against a NAS that gives both runs the
\* same answers in the same order. The runs are taken one after the other:
\* the first run's outcome is kept in `prev`, then the client is set to the
\* second run's starting session and the call is made again.

\* A logout reads no body: failure to send, a status that is not 2xx, a 2xx.
PairLogoutAnswers ==
    {HttpFail("neterr"), HttpFail("status"), HttpOk(Envelope(TRUE, DataNone, NoError))}

\* The answers of one run: to the login alone when it gives no session
\* (nothing more is asked then), else to login, operation request and logout.
PairScripts ==
    {<<l>> : l \in {r \in Responses : IsErr(Login(NoSid, "", "", r).ret)}}
        \cup {<<l, a, o>> :
                l \in {r \in Responses : IsOk(Login(NoSid, "", "", r).ret)},
                a \in Responses, o \in PairLogoutAnswers}

\* A finished run: the operation, the session id held at its start, what it
\* returned and the requests it sent.
MkRun(o, s, r, q) == [op |-> o, sid0 |-> s, ret |-> r, reqs |-> q]

InitPair ==
    /\ \E c \in Credentials : username = c[1] /\ password = c[2]
    /\ allowedEnv = "unset"
    /\ clientCreated = TRUE
    /\ sid \in {NoSid} \cup SidSet
    /\ lock = 0
    /\ Locals0
    /\ prev = NoCall
    /\ fnArg = NoArg
    /\ fnOut = NoOut
    /\ answers \in PairScripts

\* The answer to the i-th request of the run (none when the NAS was asked
\* more often than the answers reach).
AnswerAt(i) == IF i <= Len(answers) THEN answers[i] ELSE NoResponse
Asked == Len(WireOf(Caller))

\* The first run: any domain operation, on the client as InitPair left it.
PairFirst == started = 0 /\ CallDomainOp

\* The second run: the same operation on a client holding another session id
\* (or none).
PairSecond ==
    /\ started = 1
    /\ pc[Caller] = "idle"
    /\ prev # NoCall
    /\ \E s \in ({NoSid} \cup SidSet) \ {prev.sid0} :
         /\ sid' = s
         /\ sidAtCall' = [sidAtCall EXCEPT ![Caller] = s]
    /\ started' = started + 1
    /\ op' = [op EXCEPT ![Caller] = prev.op]
    /\ pc' = [pc EXCEPT ![Caller] = "call_login"]
    /\ UNCHANGED <<configVars, sideVars, clientCreated, lock, job, ensured, apiRes, ret,
                   calls, wire, granted, lastResp>>

PairLogin ==
    /\ LoginStep(Caller, AnswerAt(Asked + 1))
    /\ lastResp' = AnswerAt(Asked + 1)

\* The answer to the operation request comes after the one to the login
\* that ensure_login sends, if it sends one.
PairApi ==
    LET k == IF sid = NoSid THEN 2 ELSE 1 IN
    /\ ApiStep(Caller, AnswerAt(Asked + 1), AnswerAt(Asked + k))
    /\ lastResp' = AnswerAt(Asked + k)

PairLogout ==
    /\ LogoutStep(Caller, AnswerAt(Asked + 1))
    /\ lastResp' = AnswerAt(Asked + 1)

\* The first run's outcome is kept for comparison; the second run's stays
\* with the caller.
PairReturn ==
    /\ started = 1
    /\ pc[Caller] = "returned"
    /\ pc' = [pc EXCEPT ![Caller] = "idle"]
    /\ prev' = MkRun(op[Caller], sidAtCall[Caller], ret[Caller], RequestsOf(Caller))
    /\ ResetLocals(Caller)
    /\ lastResp' = NoResponse
    /\ UNCHANGED <<configVars, clientCreated, sid, lock, started, fnArg, fnOut, answers>>

NextPair ==
    \/ PairFirst
    \/ PairSecond
    \/ PairLogin
    \/ PairApi
    \/ PairLogout
    \/ PairReturn

SpecPair == InitPair /\ [][NextPair]_vars

\* ------------------------------------------- functions applied on their own
\* The codes get_error_description is applied to: a stretch around the table
\* and the ends of i32.
Margin == 5
TableEnd == 150
I32Max == 2147483647
I32Min == (0 - I32Max) - 1
CodeSamples == ((0 - Margin) .. (TableEnd + Margin)) \cup {I32Min, I32Max}

\* The client whose login request is rendered: STB_SYNOLOGY_NAS_BASE_URL and
\* the credentials it was built with.
BaseUrl == "http://nas:5000"
AccountSamples == {"admin", "o'neil"}
PasswordSamples == {"secret", "pa'ss", "********", "admin"}

InitFn ==
    /\ fnArg \in {MkArg("get_error_description", c) : c \in CodeSamples}
                    \cup {MkArg("to_curl_command", 0)}
    /\ IF fnArg.fn = "to_curl_command"
       THEN username \in AccountSamples /\ password \in PasswordSamples
       ELSE username = "admin" /\ password = "secret"
    /\ allowedEnv = "unset"
    /\ clientCreated = TRUE
    /\ sid = NoSid
    /\ lock = 0
    /\ Locals0
    /\ prev = NoCall
    /\ fnOut = NoOut
    /\ answers = <<>>

ApplyGetErrorDescription ==
    /\ fnArg.fn = "get_error_description"
    /\ fnOut = NoOut
    /\ fnOut' = GetErrorDescription(fnArg.code)
    /\ UNCHANGED <<configVars, clientCreated, sid, lock, pc, job, ensured, op, apiRes,
                   ret, calls, wire, sidAtCall, granted, lastResp, started, prev, fnArg, answers>>

\* login(): let curl_cmd = self.to_curl_command(&url, &params, &["passwd"]).
ApplyToCurlCommand ==
    /\ fnArg.fn = "to_curl_command"
    /\ fnOut = NoOut
    /\ fnOut' = ToCurlCommand(GetUrl(BaseUrl), LoginParams(username, password), {"passwd"})
    /\ UNCHANGED <<configVars, clientCreated, sid, lock, pc, job, ensured, op, apiRes,
                   ret, calls, wire, sidAtCall, granted, lastResp, started, prev, fnArg, answers>>

NextFn ==
    \/ ApplyGetErrorDescription
    \/ ApplyToCurlCommand

SpecFn == InitFn /\ [][NextFn]_vars

\* ================================================================ claims
DomainFns == {"list_files", "get_ssh_status", "toggle_ssh"}
InDomainOp(h) == op[h].fn \in DomainFns
Count(q, x) == Cardinality({i \in 1 .. Len(q) : q[i] = x})
Bracket == <<"login", "api_request", "logout">>

\* C1 as stated: whatever the outcome of list_files / get_ssh_status /
\* toggle_ssh, by the time it returns exactly one logout has been called and
\* sent, after the operation step.
C1_EveryOutcomeLogsOut ==
    \A h \in Handlers :
        (InDomainOp(h) /\ pc[h] = "returned") =>
            /\ Count(calls[h], "logout") = 1
            /\ Count(MethodsOf(h), "logout") = 1
            /\ calls[h] = Bracket

\* C1 amended: an invocation whose first login succeeded reaches the operation
\* step and then, whatever that step's outcome, calls logout exactly once and
\* sends exactly one logout request, after the operation step and before it
\* returns; an invocation whose first login failed returns that error with no
\* operation step and no logout; no logout happens earlier in the bracket.
C1_LogoutOnceAfterOperation ==
    \A h \in Handlers :
        InDomainOp(h) =>
            /\ pc[h] \in {"call_login", "call_api", "call_logout"} =>
                 /\ Count(calls[h], "logout") = 0
                 /\ Count(MethodsOf(h), "logout") = 0
                 /\ calls[h] = SubSeq(Bracket, 1, Len(calls[h]))
            /\ (pc[h] = "returned" /\ Count(calls[h], "api_request") > 0) =>
                 /\ calls[h] = Bracket
                 /\ MethodsOf(h) = <<"login", ArgsOf(op[h]).method, "logout">>
            /\ (pc[h] = "returned" /\ Count(calls[h], "api_request") = 0) =>
                 /\ calls[h] = <<"login">>
                 /\ MethodsOf(h) = <<"login">>
                 /\ ret[h].kind \in {"Reqwest", "Synology", "Generic"}

\* C1 witness: list_files returned an error of its operation step, and logged out.
C1_Witness ==
    /\ pc[Caller] = "returned"
    /\ op[Caller].fn = "list_files"
    /\ ret[Caller].kind = "Synology"
    /\ calls[Caller] = Bracket
    /\ MethodsOf(Caller) = <<"login", "list", "logout">>

\* C2: what a domain operation returns is the result of its api_request step,
\* whatever logout answered (the session may still be held: logout failed).
C2_ReturnsExecutorResult ==
    \A h \in Handlers :
        (InDomainOp(h) /\ pc[h] = "returned" /\ Count(calls[h], "logout") > 0) =>
            /\ ret[h] = apiRes[h]
            /\ apiRes[h] # NoResult

\* C2 witness: get_ssh_status returns its value although the logout request
\* got a non-2xx status (the session id is still held).
C2_Witness ==
    /\ pc[Caller] = "returned"
    /\ op[Caller].fn = "get_ssh_status"
    /\ lastResp.http = "status"
    /\ sid # NoSid
    /\ ret[Caller] = Ok(BoolVal(TRUE))

\* C3: at most one handler is between lock and release; every request of an
\* operation in progress was sent by the lock holder (requests of two brackets
\* never interleave); a handler that reads or writes the session id (any step
\* from ensure_logged_in to the return of the client method) holds the lock.
UnderLock == {"ensure", "call_login", "call_api", "call_logout", "returned", "reply"}
C3_OneBracketAtATime ==
    /\ \A h1 \in Handlers, h2 \in Handlers :
         (pc[h1] \in UnderLock /\ pc[h2] \in UnderLock) => h1 = h2
    /\ \A i \in 1 .. Len(wire) : wire[i].by = lock
    /\ \A h \in Handlers : pc[h] \in UnderLock => lock = h

\* C3 witness: one handler is in its bracket, two requests sent, while another
\* waits for the lock.
C3_Witness ==
    \E h1 \in Handlers, h2 \in Handlers :
        /\ pc[h1] = "call_logout"
        /\ Len(wire) = 2
        /\ pc[h2] = "lock"

\* C4: the first request of a domain operation is a login, also when a
\* session id was held at its start, and every later request of the bracket
\* (operation, logout) carries the session id that login was given.
C4_FreshSessionPerBracket ==
    \A h \in Handlers :
        (InDomainOp(h) /\ calls[h] # <<>>) =>
            /\ Len(WireOf(h)) >= 1
            /\ MethodOf(WireOf(h)[1]) = "login"
            /\ \A i \in 2 .. Len(WireOf(h)) :
                 /\ MethodOf(WireOf(h)[i]) # "login"
                 /\ SidOf(WireOf(h)[i]) = granted[h]
                 /\ granted[h] # NoSid

\* C4 witness: the operation began with sid1 held (left by an earlier call),
\* its login was given sid2, and its operation and logout requests carry sid2.
C4_Witness ==
    /\ pc[Caller] = "returned"
    /\ InDomainOp(Caller)
    /\ sidAtCall[Caller] = "sid1"
    /\ granted[Caller] = "sid2"
    /\ Len(WireOf(Caller)) = 3
    /\ SidOf(WireOf(Caller)[2]) = "sid2"
    /\ SidOf(WireOf(Caller)[3]) = "sid2"

\* C5: logout() with a session held and a 2xx answer leaves no session and
\* returns Ok, whatever the body (in a bracket: leaves no session).
C5_LogoutIgnoresBody ==
    /\ (pc[Caller] = "returned" /\ op[Caller].fn = "logout"
            /\ sidAtCall[Caller] # NoSid /\ lastResp.http = "ok") =>
         /\ sid = NoSid
         /\ ret[Caller] = Ok(UnitVal)
    /\ (pc[Caller] = "returned" /\ InDomainOp(Caller) /\ calls[Caller] = Bracket
            /\ lastResp.http = "ok") =>
         sid = NoSid

\* C5 witness: logout() returned Ok and cleared the session on a 2xx answer
\* whose body says success false, error 119.
C5_Witness ==
    /\ pc[Caller] = "returned"
    /\ op[Caller].fn = "logout"
    /\ sidAtCall[Caller] # NoSid
    /\ lastResp = HttpOk(Envelope(FALSE, DataNone, ApiError(119)))
    /\ sid = NoSid
    /\ ret[Caller] = Ok(UnitVal)

\* C6: logout() with no session held returns Ok, sends nothing and leaves the
\* session absent.
C6_LogoutWithoutSession ==
    (pc[Caller] = "returned" /\ op[Caller].fn = "logout" /\ sidAtCall[Caller] = NoSid) =>
        /\ ret[Caller] = Ok(UnitVal)
        /\ WireOf(Caller) = <<>>
        /\ sid = NoSid

\* C6 witness: logout() has returned from a call made with no session.
C6_Witness ==
    /\ pc[Caller] = "returned"
    /\ op[Caller].fn = "logout"
    /\ sidAtCall[Caller] = NoSid
    /\ IsOk(ret[Caller])

\* C7: a call of login() sends exactly one login request; on an envelope with
\* success true and a session id the session becomes that id and login
\* returns Ok; on an envelope with success false and an error object (its
\* data absent or a session payload) login returns Synology with that code.
C7_LoginContract ==
    (pc[Caller] = "returned" /\ op[Caller].fn = "login") =>
        /\ MethodsOf(Caller) = <<"login">>
        /\ WireOf(Caller)[1].params = LoginParams(username, password)
        /\ (lastResp.http = "ok" /\ lastResp.body.kind = "envelope"
                /\ lastResp.body.success /\ lastResp.body.data.kind = "auth") =>
             /\ sid = lastResp.body.data.sid
             /\ ret[Caller] = Ok(UnitVal)
        /\ (lastResp.http = "ok" /\ lastResp.body.kind = "envelope"
                /\ ~lastResp.body.success /\ lastResp.body.error.present
                /\ lastResp.body.data.kind \in {"none", "auth"}) =>
             /\ ret[Caller].kind = "Synology"
             /\ ret[Caller].code = lastResp.body.error.code

\* C7 witness: login() called with sid1 held was given sid2 and now holds it.
C7_Witness ==
    /\ pc[Caller] = "returned"
    /\ op[Caller].fn = "login"
    /\ sidAtCall[Caller] = "sid1"
    /\ lastResp = HttpOk(Envelope(TRUE, DataAuth("sid2"), NoError))
    /\ sid = "sid2"
    /\ IsOk(ret[Caller])

\* C8 as stated: ensure_logged_in answers false when a credential is empty,
\* and whenever it has answered true a session id is held (checked where the
\* handler stands right after the answer).
C8_TrueMeansSessionHeld ==
    \A h \in Handlers :
        pc[h] \in {"call_login", "reply"} =>
            /\ (username = "" \/ password = "") => ensured[h] = "false"
            /\ ensured[h] = "true" => sid # NoSid

\* C9 as stated: api_request entered with no session, whose ensure_login does
\* not establish one, fails with LoginFailed and sends no operation request.
C9_NoSessionIsLoginFailed ==
    (pc[Caller] = "returned" /\ op[Caller].fn = "api_request"
        /\ sidAtCall[Caller] = NoSid /\ sid = NoSid) =>
        /\ ret[Caller] = ErrLoginFailed
        /\ MethodsOf(Caller) = <<"login">>

\* C10 as stated: a 2xx answer with a malformed body, to a login request as to
\* an operation request, makes the call fail with Generic (JSON parsing error).
ParseFailure == ErrGeneric(<<"JSON parsing error">>)
C10_MalformedBodyIsGeneric ==
    /\ (pc[Caller] = "returned" /\ op[Caller].fn \in {"login", "api_request"}
            /\ lastResp = HttpOk(BodyMalformed)) =>
         ret[Caller] = ParseFailure
    /\ (pc[Caller] = "call_logout" /\ lastResp = HttpOk(BodyMalformed)) =>
         apiRes[Caller] = ParseFailure
    /\ (pc[Caller] = "returned" /\ InDomainOp(Caller) /\ calls[Caller] = <<"login">>
            /\ lastResp = HttpOk(BodyMalformed)) =>
         ret[Caller] = ParseFailure

\* The NAS answered the request with an envelope whose success is true.
SaysSuccess(resp) ==
    resp.http = "ok" /\ resp.body.kind = "envelope" /\ resp.body.success

\* C11 as stated: when the envelope answering the set request of toggle_ssh
\* has success true, with or without a data member, the operation step of
\* toggle_ssh is a success.
C11_SuccessEnvelopeIsOk ==
    (pc[Caller] = "call_logout" /\ op[Caller].fn = "toggle_ssh" /\ SaysSuccess(lastResp)) =>
        apiRes[Caller] = Ok(UnitVal)

\* The methods of a sequence of requests.
Methods(q) == [i \in 1 .. Len(q) |-> q[i][3][2]]

\* C12 as stated: toggle_ssh(true) right after a toggle_ssh(true), the NAS
\* reporting success to every request: both calls return success, and both
\* sent login, set with enable_ssh = true, logout.
C12_ToggleTwiceSucceeds ==
    (pc[Caller] = "returned" /\ op[Caller] = MkOp("toggle_ssh", TRUE, "")
        /\ prev.op = MkOp("toggle_ssh", TRUE, "")) =>
        /\ IsOk(prev.ret)
        /\ IsOk(ret[Caller])
        /\ Methods(prev.reqs) = <<"login", "set", "logout">>
        /\ Methods(RequestsOf(Caller)) = <<"login", "set", "logout">>
        /\ prev.reqs[2][5] = <<"enable_ssh", "true">>
        /\ RequestsOf(Caller)[2][5] = <<"enable_ssh", "true">>

\* C13: an operation request answered by an envelope (one that deserializes
\* for the operation: data absent or of its payload type) with success false
\* and an error object of code c makes the operation step fail with Synology
\* carrying code c; its description is the table's, "Invalid session." for 119.
C13_ErrorCodeCarried ==
    (pc[Caller] = "call_logout" /\ InDomainOp(Caller)
        /\ lastResp.http = "ok" /\ ParsesAs(ArgsOf(op[Caller]).T, lastResp.body)
        /\ ~lastResp.body.success /\ lastResp.body.error.present) =>
        /\ apiRes[Caller].kind = "Synology"
        /\ apiRes[Caller].code = lastResp.body.error.code
        /\ lastResp.body.error.code = 119 =>
              GetErrorDescription(apiRes[Caller].code) = "Invalid session."

\* C13 witness: toggle_ssh's set request was answered {success: false,
\* error: {code: 119}} and its operation step failed with Synology(119).
C13_Witness ==
    /\ pc[Caller] = "call_logout"
    /\ op[Caller].fn = "toggle_ssh"
    /\ lastResp = HttpOk(Envelope(FALSE, DataNone, ApiError(119)))
    /\ apiRes[Caller] = ErrSynology(119)

\* The documented strings for codes 100 .. 119, in order.
Documented ==
    <<"Unknown error.",
      "No parameter of API, method or version.",
      "The requested API does not exist.",
      "The requested method does not exist.",
      "The requested version does not support the functionality.",
      "The logged in session does not have permission.",
      "Session timeout.",
      "Session interrupted by duplicated login.",
      "Failed to upload the file.",
      "The network connection is unstable or the system is busy.",
      "The network connection is unstable or the system is busy.",
      "The network connection is unstable or the system is busy.",
      "Preserve for other purpose.",
      "Preserve for other purpose.",
      "Lost parameters for this API.",
      "Not allowed to upload a file.",
      "Not allowed to perform for a demo site.",
      "The network connection is unstable or the system is busy.",
      "The network connection is unstable or the system is busy.",
      "Invalid session.">>

\* C14: get_error_description answers for every code: the documented string
\* for 100 .. 119 and for 150, the reserved message for 120 .. 149, and the
\* one fallback for every other integer.
C14_DescriptionTable ==
    (fnArg.fn = "get_error_description" /\ fnOut # NoOut) =>
        LET c == fnArg.code IN
        /\ (c >= 100 /\ c <= 119) => fnOut = Documented[c - 99]
        /\ c = 150 => fnOut = "Request source IP does not match the login IP."
        /\ (c >= 120 /\ c <= 149) => fnOut = "Preserve for other purpose."
        /\ (c < 100 \/ c > 150) => fnOut = "Unknown error code."

\* C14 witness: the first reserved code has been looked up.
C14_Witness ==
    /\ fnArg = MkArg("get_error_description", 120)
    /\ fnOut = "Preserve for other purpose."

\* C15: get_ssh_status, its get request answered by a success envelope whose
\* payload has any of service_status, enable_ssh, status (each absent, true
\* or false), returns Ok(true) if one of them is true and Ok(false) if none
\* is -- also when all three are absent.
C15_AnyTrueField ==
    (InDomainOp(Caller) /\ op[Caller].fn = "get_ssh_status") =>
        /\ (pc[Caller] = "call_logout" /\ SaysSuccess(lastResp)
                /\ lastResp.body.data.kind = "status") =>
             apiRes[Caller] =
                Ok(BoolVal(\E f \in {"service_status", "enable_ssh", "status"} :
                              lastResp.body.data[f] = "true"))
        /\ (pc[Caller] = "returned" /\ calls[Caller] = Bracket) =>
             ret[Caller] = apiRes[Caller]

\* C15 witness: status true, the other two fields absent: the operation step
\* of get_ssh_status has Ok(true).
C15_Witness ==
    /\ pc[Caller] = "call_logout"
    /\ op[Caller].fn = "get_ssh_status"
    /\ lastResp = HttpOk(Envelope(TRUE, DataStatus("absent", "absent", "true"), NoError))
    /\ apiRes[Caller] = Ok(BoolVal(TRUE))

\* C16: list_files, its list request answered by a success envelope with a
\* files payload, returns Ok with exactly the payload's files, in the
\* payload's order; an empty listing gives Ok with the empty sequence.
C16_FilesAsListed ==
    (InDomainOp(Caller) /\ op[Caller].fn = "list_files") =>
        /\ (pc[Caller] = "call_logout" /\ SaysSuccess(lastResp)
                /\ lastResp.body.data.kind = "files") =>
             /\ IsOk(apiRes[Caller])
             /\ apiRes[Caller].val.t = "files"
             /\ apiRes[Caller].val.files = lastResp.body.data.files
        /\ (pc[Caller] = "returned" /\ calls[Caller] = Bracket) =>
             ret[Caller] = apiRes[Caller]

\* C16 witness: list_files("/empty") answered with no files has Ok(<<>>).
C16_Witness ==
    /\ pc[Caller] = "call_logout"
    /\ op[Caller] = MkOp("list_files", FALSE, "/empty")
    /\ lastResp = HttpOk(Envelope(TRUE, DataFiles(<<>>), NoError))
    /\ apiRes[Caller] = Ok(FilesVal(<<>>))

\* The requests of caller h that are neither login nor logout.
OperationRequests(h) ==
    SelectSeq(MethodsOf(h), LAMBDA m : m \notin {"login", "logout"})

\* C17: when the operation request meets a network failure or a non-2xx
\* status, api_request fails with Reqwest (not Synology, Generic or
\* LoginFailed), and the operation request has been sent once; it is not sent
\* again before the invocation returns.
C17_TransportFailureNoRetry ==
    /\ (pc[Caller] = "call_logout" /\ InDomainOp(Caller)
            /\ lastResp.http \in {"neterr", "status"}) =>
         /\ apiRes[Caller].kind = "Reqwest"
         /\ Len(OperationRequests(Caller)) = 1
    /\ (pc[Caller] = "returned" /\ InDomainOp(Caller) /\ calls[Caller] = Bracket) =>
         /\ Len(OperationRequests(Caller)) = 1
         /\ apiRes[Caller].kind = "Reqwest" => ret[Caller].kind = "Reqwest"
    /\ (pc[Caller] = "returned" /\ op[Caller].fn = "api_request"
            /\ OperationRequests(Caller) # <<>>
            /\ lastResp.http \in {"neterr", "status"}) =>
         /\ ret[Caller].kind = "Reqwest"
         /\ Len(OperationRequests(Caller)) = 1

\* C17 witness: the get request of get_ssh_status got a non-2xx status; the
\* operation step has a Reqwest error after login and one get request.
C17_Witness ==
    /\ pc[Caller] = "call_logout"
    /\ op[Caller].fn = "get_ssh_status"
    /\ lastResp = HttpFail("status")
    /\ apiRes[Caller] = ErrReqwest("status")
    /\ MethodsOf(Caller) = <<"login", "get">>

\* C18: with an empty username or an empty password, no request is ever sent
\* to the NAS (no client is even created, no handler enters a bracket), and
\* every handler that asked ensure_logged_in was told false -- the first
\* request and every later one.
C18_EmptyCredentialsSendNothing ==
    (username = "" \/ password = "") =>
        /\ wire = <<>>
        /\ ~clientCreated
        /\ sid = NoSid
        /\ \A h \in Handlers :
             /\ pc[h] \notin {"call_login", "call_api", "call_logout", "returned"}
             /\ calls[h] = <<>>
             /\ pc[h] = "reply" => ensured[h] = "false"

\* C18 witness: the password is empty; a handler was told false and is about
\* to reply while another already waits with the next request.
C18_Witness ==
    /\ username = "admin"
    /\ password = ""
    /\ \E h1 \in Handlers, h2 \in Handlers :
         /\ pc[h1] = "reply"
         /\ ensured[h1] = "false"
         /\ pc[h2] = "lock"

\* Handler h gives up the lock in this step.
Releases(h) == lock = h /\ lock' # h

\* C19 as stated: a handler whose bracket has begun (its login request was
\* sent) does not release the lock without having called logout.
C19_NoReleaseWithoutLogout ==
    [][\A h \in Handlers :
         (Releases(h) /\ WireOf(h) # <<>>) => Count(calls[h], "logout") = 1]_vars

\* C19 amended: a handler releases the lock only with no bracket begun, or
\* with a bracket whose login failed (that error returned, nothing but the
\* login request sent), or with a complete bracket: login, operation request,
\* logout called and its request sent.
C19_ReleaseAfterBracketEnds ==
    [][\A h \in Handlers :
         Releases(h) =>
            \/ calls[h] = <<>> /\ WireOf(h) = <<>>
            \/ /\ calls[h] = <<"login">>
               /\ MethodsOf(h) = <<"login">>
               /\ ret[h].kind \in {"Reqwest", "Synology", "Generic"}
            \/ /\ calls[h] = Bracket
               /\ MethodsOf(h) = <<"login", ArgsOf(op[h]).method, "logout">>]_vars

\* C19 witness: a handler holding the lock has run its whole bracket and is
\* about to reply and release, another handler waiting.
C19_Witness ==
    \E h1 \in Handlers, h2 \in Handlers :
        /\ lock = h1
        /\ pc[h1] = "returned"
        /\ calls[h1] = Bracket
        /\ MethodsOf(h1) = <<"login", "get", "logout">>
        /\ pc[h2] = "lock"

\* The request an operation is to send when the session id held is s.
ExpectedRequest(o, s) ==
    CASE o.fn = "toggle_ssh" ->
           <<<<"api", "SYNO.Core.Terminal">>, <<"version", "1">>, <<"method", "set">>,
             <<"_sid", s>>, <<"enable_ssh", IF o.enable THEN "true" ELSE "false">>>>
      [] o.fn = "get_ssh_status" ->
           <<<<"api", "SYNO.Core.Terminal">>, <<"version", "1">>, <<"method", "get">>,
             <<"_sid", s>>>>
      [] OTHER ->
           <<<<"api", "SYNO.FileStation.List">>, <<"version", "2">>, <<"method", "list">>,
             <<"_sid", s>>, <<"folder_path", o.path>>>>

\* The requests of caller h that are neither login nor logout, in full.
OperationParams(h) ==
    SelectSeq(RequestsOf(h), LAMBDA q : q[3][2] \notin {"login", "logout"})

\* C20: the one request api_request sends for an operation has the keys api,
\* version, method, _sid in that order, _sid being the session id held, then
\* the caller's extra parameters; toggle_ssh(enable) sends SYNO.Core.Terminal,
\* version 1, method set, enable_ssh "true" iff enable; get_ssh_status sends
\* method get and nothing more.
C20_RequestParameters ==
    /\ \A i \in 1 .. Len(OperationParams(Caller)) :
         LET q == OperationParams(Caller)[i] IN
         /\ Len(q) >= 4
         /\ <<q[1][1], q[2][1], q[3][1], q[4][1]>> = <<"api", "version", "method", "_sid">>
         /\ q[4][2] # NoSid
         /\ \A k \in 5 .. Len(q) : q[k][1] \in {"enable_ssh", "folder_path"}
    /\ (op[Caller].fn = "api_request" /\ pc[Caller] = "returned"
            /\ OperationParams(Caller) # <<>>) =>
         /\ Len(OperationParams(Caller)) = 1
         /\ OperationParams(Caller)[1][4][2] = sid
    /\ (InDomainOp(Caller) /\ pc[Caller] \in {"call_logout", "returned"}
            /\ Count(calls[Caller], "api_request") = 1) =>
         OperationParams(Caller) = <<ExpectedRequest(op[Caller], granted[Caller])>>
    /\ (InDomainOp(Caller) /\ pc[Caller] = "call_logout") => sid = granted[Caller]

\* C20 witness: toggle_ssh(true), given sid2 by its login, has sent its set
\* request with _sid = sid2 and enable_ssh = true.
C20_Witness ==
    /\ pc[Caller] = "call_logout"
    /\ op[Caller] = MkOp("toggle_ssh", TRUE, "")
    /\ RequestsOf(Caller)[2] =
          <<<<"api", "SYNO.Core.Terminal">>, <<"version", "1">>, <<"method", "set">>,
            <<"_sid", "sid2">>, <<"enable_ssh", "true">>>>

\* C21: the curl command logged for a login request has eight stars where
\* the passwd value would be: it is the command any other password would
\* give with the same URL and account, and it is the text below.
C21_PasswordMasked ==
    (fnArg.fn = "to_curl_command" /\ fnOut # NoOut) =>
        /\ \A p \in PasswordSamples :
             fnOut = ToCurlCommand(GetUrl(BaseUrl), LoginParams(username, p), {"passwd"})
        /\ fnOut = "curl -X GET 'http://nas:5000/webapi/entry.cgi"
                      \o "?api=SYNO.API.Auth&version=3&method=login&account="
                      \o (IF username = "admin" THEN "admin" ELSE "o\\'neil")
                      \o "&passwd=********'"

\* C21 witness: the login request of account admin with password pa'ss has
\* been rendered, stars in place of the password.
C21_Witness ==
    /\ fnArg.fn = "to_curl_command"
    /\ username = "admin"
    /\ password = "pa'ss"
    /\ fnOut = "curl -X GET 'http://nas:5000/webapi/entry.cgi"
                  \o "?api=SYNO.API.Auth&version=3&method=login&account=admin"
                  \o "&passwd=********'"

\* C22 as stated: while the lock is free the client holds no session id.
C22_FreeLockNoSession == lock = 0 => sid = NoSid

\* The NAS answered a login request with an envelope that gives a session.
GivesSession(resp) == SaysSuccess(resp) /\ resp.body.data.kind = "auth"

\* C23: a domain operation whose first login fails -- the request fails, the
\* envelope says success false, or it says success without a session id --
\* returns what that login returned and has sent the login request only;
\* the operation step is reached only after a login that gave a session.
C23_LoginErrorReturned ==
    InDomainOp(Caller) =>
        /\ (pc[Caller] = "returned" /\ calls[Caller] = <<"login">>) =>
             /\ ~GivesSession(lastResp)
             /\ ret[Caller] = Login(sidAtCall[Caller], username, password, lastResp).ret
             /\ IsErr(ret[Caller])
             /\ lastResp.http # "ok" => ret[Caller] = ErrReqwest(lastResp.http)
             /\ (lastResp.http = "ok" /\ lastResp.body.kind = "envelope"
                     /\ lastResp.body.data.kind = "none" /\ lastResp.body.error.present
                     /\ ~lastResp.body.success) =>
                  ret[Caller] = ErrSynology(lastResp.body.error.code)
             /\ (SaysSuccess(lastResp) /\ lastResp.body.data.kind = "none") =>
                  ret[Caller].kind \in {"Synology", "Generic"}
             /\ MethodsOf(Caller) = <<"login">>
        /\ pc[Caller] = "call_api" =>
             /\ GivesSession(lastResp)
             /\ MethodsOf(Caller) = <<"login">>
        /\ (pc[Caller] \in {"call_logout", "returned"}
                /\ Count(calls[Caller], "api_request") > 0) =>
             granted[Caller] # NoSid

\* C23 witness: get_ssh_status has returned the error of a login that was
\* answered success true without a session id; only the login was sent.
C23_Witness ==
    /\ pc[Caller] = "returned"
    /\ op[Caller].fn = "get_ssh_status"
    /\ lastResp = HttpOk(Envelope(TRUE, DataNone, NoError))
    /\ ret[Caller] = ErrGeneric(<<"Login failed", "with unknown error">>)
    /\ MethodsOf(Caller) = <<"login">>

\* C24: a login() that returns an error leaves the session as it was when
\* the call began: the id held before is still held, or none is held still.
\* The same holds when the error comes from the login that ensure_login makes
\* or from the login at the start of a domain operation.
C24_FailedLoginKeepsSession ==
    /\ (pc[Caller] = "returned" /\ op[Caller].fn \in {"login", "ensure_login"}
            /\ IsErr(ret[Caller])) => sid = sidAtCall[Caller]
    /\ (pc[Caller] = "returned" /\ InDomainOp(Caller) /\ calls[Caller] = <<"login">>) =>
         sid = sidAtCall[Caller]

\* C24 witness: login() was called with a session id held, the NAS refused
\* it with an error object, and the id is still held.
C24_Witness ==
    /\ pc[Caller] = "returned"
    /\ op[Caller].fn = "login"
    /\ sidAtCall[Caller] # NoSid
    /\ ret[Caller] = ErrSynology(400)
    /\ sid = sidAtCall[Caller]

\* C25: when the logout request fails at the HTTP layer (the send fails or
\* the status is not 2xx), logout() returns the transport error and the
\* session id held before the call is still held; at the end of a bracket
\* the id the login gave is still held after such a logout.
C25_FailedLogoutKeepsSession ==
    /\ (pc[Caller] = "returned" /\ op[Caller].fn = "logout"
            /\ lastResp.http \in {"neterr", "status"}) =>
         /\ sidAtCall[Caller] # NoSid
         /\ ret[Caller] = ErrReqwest(lastResp.http)
         /\ sid = sidAtCall[Caller]
         /\ MethodsOf(Caller) = <<"logout">>
    /\ (pc[Caller] = "returned" /\ InDomainOp(Caller)
            /\ Count(calls[Caller], "logout") = 1
            /\ lastResp.http \in {"neterr", "status"}) =>
         /\ sid # NoSid
         /\ sid = granted[Caller]

\* C25 witness: logout() with a session held got a non-2xx status.
C25_Witness ==
    /\ pc[Caller] = "returned"
    /\ op[Caller].fn = "logout"
    /\ sidAtCall[Caller] # NoSid
    /\ lastResp.http = "status"
    /\ ret[Caller] = ErrReqwest("status")
    /\ sid = sidAtCall[Caller]

\* The requests of a whole bracket of operation o, in order.
BracketOrder(o) == <<"login", ArgsOf(o).method, "logout">>
IsPrefix(p, q) == Len(p) <= Len(q) /\ \A i \in 1 .. Len(p) : p[i] = q[i]

\* C26: once a bracket has made its first call it has sent exactly one login
\* request, and what it has sent is a prefix of login, one operation
\* request, one logout request (so at most three); the ensure-login step
\* adds no login after the explicit one; ensure_login on its own sends a
\* login request exactly when no session id is held.
C26_OneLoginPerBracket ==
    /\ (InDomainOp(Caller) /\ calls[Caller] # <<>>) =>
         /\ Count(MethodsOf(Caller), "login") = 1
         /\ IsPrefix(MethodsOf(Caller), BracketOrder(op[Caller]))
         /\ Len(MethodsOf(Caller)) = Len(calls[Caller])
    /\ (pc[Caller] = "returned" /\ op[Caller].fn \in {"ensure_login", "api_request"}) =>
         /\ Count(MethodsOf(Caller), "login") = (IF sidAtCall[Caller] = NoSid THEN 1 ELSE 0)
         /\ Count(MethodsOf(Caller), "login") = 1 => MethodsOf(Caller)[1] = "login"

\* C26 witness: a whole toggle_ssh bracket has sent login, set, logout.
C26_Witness ==
    /\ pc[Caller] = "returned"
    /\ op[Caller].fn = "toggle_ssh"
    /\ calls[Caller] = <<"login", "api_request", "logout">>
    /\ MethodsOf(Caller) = <<"login", "set", "logout">>

\* The NAS answered with an envelope saying success false and no error object.
FailsWithoutError(resp) ==
    /\ resp.http = "ok"
    /\ resp.body.kind = "envelope"
    /\ ~resp.body.success
    /\ ~resp.body.error.present

\* The operation request of the call was sent, so lastResp is its answer.
OperationAnswered(h) ==
    /\ MethodsOf(h) # <<>>
    /\ MethodsOf(h)[Len(MethodsOf(h))] = ArgsOf(op[h]).method

\* C27: an envelope with success false and no error object is never a
\* success. When it decodes, a login returns Generic "Login failed with
\* unknown error" and leaves the session as it was, and an operation returns
\* Generic "<operation> failed with unknown error".
C27_AbsentErrorIsGeneric ==
    /\ (pc[Caller] = "returned" /\ op[Caller].fn = "login"
            /\ FailsWithoutError(lastResp)) =>
         /\ IsErr(ret[Caller])
         /\ sid = sidAtCall[Caller]
         /\ ParsesAs("AuthData", lastResp.body) =>
              ret[Caller] = ErrGeneric(<<"Login failed", "with unknown error">>)
    /\ (pc[Caller] = "returned" /\ op[Caller].fn = "api_request"
            /\ OperationAnswered(Caller) /\ FailsWithoutError(lastResp)) =>
         /\ IsErr(ret[Caller])
         /\ ParsesAs(ArgsOf(op[Caller]).T, lastResp.body) =>
              ret[Caller] = ErrGeneric(ArgsOf(op[Caller]).operation
                                           \o <<"failed", "with unknown error">>)
    /\ (pc[Caller] = "call_logout" /\ InDomainOp(Caller)
            /\ FailsWithoutError(lastResp)) =>
         /\ IsErr(apiRes[Caller])
         /\ ParsesAs(ArgsOf(op[Caller]).T, lastResp.body) =>
              apiRes[Caller] = ErrGeneric(ArgsOf(op[Caller]).operation
                                              \o <<"failed", "with unknown error">>)

\* C27 witness: login() with a session held was answered {success: false}
\* and returned the generic error; the session is as before.
C27_Witness ==
    /\ pc[Caller] = "returned"
    /\ op[Caller].fn = "login"
    /\ lastResp = HttpOk(Envelope(FALSE, DataNone, NoError))
    /\ ret[Caller] = ErrGeneric(<<"Login failed", "with unknown error">>)
    /\ sidAtCall[Caller] # NoSid
    /\ sid = sidAtCall[Caller]

\* C28: every request on the wire was sent by a handler serving the allowed
\* chat, a handler past the chat-id check serves the allowed chat, an update
\* that carries another chat leaves no work for the client, and with
\* STB_ALLOWED_CHAT_ID unset or not an integer no handler gets past the
\* check and nothing is sent.
C28_OnlyAllowedChat ==
    /\ \A i \in 1 .. Len(wire) : IsAuthorizedChat(allowedEnv, job[wire[i].by].chat)
    /\ \A h \in Handlers : pc[h] # "idle" => IsAuthorizedChat(allowedEnv, job[h].chat)
    /\ \A u \in Updates :
         (u.hasMessage /\ ~IsAuthorizedChat(allowedEnv, u.chat)) =>
             JobOf(allowedEnv, u) = NoJob
    /\ allowedEnv \in {"unset", "notanumber"} =>
         /\ wire = <<>>
         /\ lock = 0
         /\ \A h \in Handlers : pc[h] = "idle"

\* C28 witness: with the allowed chat set, a handler has sent requests for
\* that chat while updates of another chat exist and are turned away.
C28_Witness ==
    /\ allowedEnv = "1"
    /\ wire # <<>>
    /\ \A i \in 1 .. Len(wire) : job[wire[i].by].chat = 1
    /\ \E u \in Updates :
         u.chat # 1 /\ u.hasMessage /\ NeedsClient(u) /\ JobOf(allowedEnv, u) = NoJob

\* C30: the client, once there, stays; it comes to be only in a step of
\* ensure_logged_in taken by the holder of the lock with both credentials
\* non-empty; and ensure_logged_in with a client already there keeps that
\* client, session state included.
C30_ClientCreatedOnce ==
    [][/\ clientCreated => clientCreated'
       /\ (~clientCreated /\ clientCreated') =>
            /\ username # "" /\ password # ""
            /\ sid' = NoSid
            /\ \E h \in Handlers : lock = h /\ pc[h] = "ensure" /\ pc'[h] # "ensure"
       /\ (clientCreated /\ \E h \in Handlers : pc[h] = "ensure" /\ pc'[h] # "ensure") =>
            sid' = sid]_vars

\* C30 witness: a later bracket starts on the client an earlier one made,
\* which still holds the session id that bracket's failed logout left.
C30_Witness ==
    /\ clientCreated
    /\ sid # NoSid
    /\ \E h \in Handlers : lock = h /\ pc[h] = "call_login" /\ calls[h] = <<>>

\* C29: a handler holds the lock exactly while it is between its
\* lock().await and the end of its reply, so a handler that waits for the
\* lock does not hold it; a wait ends only with the waiter holding the lock;
\* and every handler that waits for the lock or holds it comes back to idle,
\* that is, the waiter gets the lock and the holder releases it.
C29_LockLiveness ==
    /\ [](\A h \in Handlers : lock = h <=> pc[h] \notin {"idle", "lock"})
    /\ [][\A h \in Handlers : (pc[h] = "lock" /\ pc'[h] # "lock") => lock' = h]_vars
    /\ \A h \in Handlers : (pc[h] # "idle") ~> (pc[h] = "idle")

\* C29 witness: one handler is in its bracket under the lock while another
\* waits for the lock.
C29_Witness ==
    \E h, k \in Handlers :
        /\ h # k
        /\ lock = h
        /\ pc[h] = "call_api"
        /\ pc[k] = "lock"

\* The requests among q that are not logout requests.
LoginAndOperation(q) == SelectSeq(q, LAMBDA r : r[3][2] # "logout")

\* C31: when the second of two runs of a domain operation has returned, on
\* clients that differ only in the session id held at the start and with the
\* same answers from the NAS, it returned what the first run returned and
\* sent the same login and operation requests.
C31_StaleSessionNoMatter ==
    (started = 2 /\ pc[Caller] = "returned") =>
        /\ prev.op = op[Caller]
        /\ prev.sid0 # sidAtCall[Caller]
        /\ ret[Caller] = prev.ret
        /\ LoginAndOperation(RequestsOf(Caller)) = LoginAndOperation(prev.reqs)

\* C31 witness: the first run began with no session, the second with a stale
\* one; both got a session from the login, a status from the NAS and a
\* failed logout, and both returned the same Ok value.
C31_Witness ==
    /\ started = 2
    /\ pc[Caller] = "returned"
    /\ op[Caller].fn = "get_ssh_status"
    /\ prev.sid0 = NoSid
    /\ sidAtCall[Caller] # NoSid
    /\ IsOk(ret[Caller])
    /\ ret[Caller] = prev.ret
    /\ Len(prev.reqs) = 3
    /\ lastResp = HttpFail("status")

====
